---- MODULE Spec2Model ----
(***************************************************************************)
(* Model of synapse/rest/client/v2_alpha/account.py: the request-token,    *)
(* password, deactivate and threepid servlets, together with the           *)
(* collaborators they call (datastore, auth handler, identity handler,     *)
(* interactive-auth engine).                                               *)
(*                                                                         *)
(* Strings that are normalised (email addresses, phone numbers) are        *)
(* sequences of character codes, so that lower-casing and msisdn           *)
(* canonicalisation are computed and not assumed.                          *)
(***************************************************************************)
EXTENDS Integers, Sequences, FiniteSets, TLC

VARIABLES
    threepids,    \* ThreepidStore: set of [medium, address, user_id, validated_at]
    deactivated,  \* user ids whose account was deactivated
    sessions,     \* UIA session store: session id -> completed stages
    add,          \* in-flight ThreepidRestServlet.on_POST, one per requesting user
    last          \* the last request completed by one of the other servlets

vars == <<threepids, deactivated, sessions, add, last>>

-----------------------------------------------------------------------------
(* Values *)

None == "None"

Users == {"@alice:hs", "@bob:hs"}

\* A requester as returned by auth.get_user_by_req: the user and whether the
\* access token belongs to an application service.
Requesters == [user : Users, app_service : BOOLEAN]

\* The requester of a request without an access token (Python's None).
NoRequester == [user |-> None, app_service |-> FALSE]

\* "U@x" and "u@x" as character codes.
EmailUpper == <<85, 64, 120>>
EmailLower == <<117, 64, 120>>
RawEmails == {EmailUpper, EmailLower}

\* Phone numbers as digit sequences: national format with and without the
\* trunk prefix 0.
Countries == {"GB"}
RawPhones == {<<0, 7>>, <<7>>}

\* Timestamps the identity server reports in validated_at.
ValidatedAts == {1000}

\* send_attempt values a client submits.
MaxSendAttempt == 1
SendAttempts == 1..MaxSendAttempt

-----------------------------------------------------------------------------
(* Normalisation *)

\* str.lower() on one character code
LowerChar(c) == IF c >= 65 /\ c <= 90 THEN c + 32 ELSE c

\* Variant: the address is used as submitted.
StrLower_Identity(s) == s

\* str.lower()
StrLower(s) == [i \in 1..Len(s) |-> LowerChar(s[i])]

CountryCode(country) == IF country = "GB" THEN <<4, 4>> ELSE <<1>>

\* National number without its trunk prefix.
StripTrunk(phone) == IF Len(phone) > 0 /\ phone[1] = 0 THEN Tail(phone) ELSE phone

\* synapse.util.msisdn.phone_number_to_msisdn
phone_number_to_msisdn(country, phone) == CountryCode(country) \o StripTrunk(phone)

Msisdns == {phone_number_to_msisdn(c, p) : c \in Countries, p \in RawPhones}

\* The address normalisation of the data model: emails are lower-cased.
Normalize(medium, address) == IF medium = "email" THEN StrLower(address) ELSE address

-----------------------------------------------------------------------------
(* ThreepidStore *)

Owners(store, medium, address) ==
    {t.user_id : t \in {x \in store : x.medium = medium /\ x.address = address}}

\* datastore.get_user_id_by_threepid
get_user_id_by_threepid(store, medium, address) ==
    IF Owners(store, medium, address) = {} THEN None
    ELSE CHOOSE u \in Owners(store, medium, address) : TRUE

\* insert_if_absent(medium, normalized_address, user_id, validated_at)
insert_if_absent(store, medium, address, user_id, validated_at) ==
    IF Owners(store, medium, address) # {}
    THEN [store |-> store, result |-> "conflict"]
    ELSE [store |-> store \cup {[medium |-> medium, address |-> address,
                                 user_id |-> user_id, validated_at |-> validated_at]},
          result |-> "success"]

\* delete(medium, normalized_address, expected_owner)
store_delete(store, medium, address, expected_owner) ==
    IF Owners(store, medium, address) = {}
    THEN [store |-> store, result |-> "not_found"]
    ELSE IF expected_owner \notin Owners(store, medium, address)
    THEN [store |-> store, result |-> "not_owner"]
    ELSE [store |-> {t \in store : ~(t.medium = medium /\ t.address = address)},
          result |-> "success"]

\* auth_handler.add_threepid: normalise, then insert
add_threepid(store, user_id, medium, address, validated_at) ==
    insert_if_absent(store, medium, Normalize(medium, address), user_id, validated_at)

\* auth_handler.delete_threepid: normalise as add does, then delete
delete_threepid(store, user_id, medium, address) ==
    store_delete(store, medium, Normalize(medium, address), user_id)

-----------------------------------------------------------------------------
(* Responses *)

\* A servlet's answer: the HTTP status, the errcode of a raised SynapseError
\* ("" when none) and the returned JSON value.
Ok(ret) == [code |-> 200, errcode |-> "", ret |-> ret]
Error(code, errcode) == [code |-> code, errcode |-> errcode, ret |-> <<>>]

\* assert_params_in_request, and the servlets' own loops over `required`
HasParams(body, required) == required \subseteq DOMAIN body

\* auth.get_user_by_req raises when the request carries no access token, or the
\* token of a deactivated account; NoResp when it returns the requester.
MissingToken == Error(401, "M_MISSING_TOKEN")
NoResp == Error(0, "")
get_user_by_req(requester, deact) ==
    IF requester.user = None THEN MissingToken
    ELSE IF ~requester.app_service /\ requester.user \in deact
    THEN Error(401, "M_UNKNOWN_TOKEN")
    ELSE NoResp

-----------------------------------------------------------------------------
(* IdentityVerifier *)

VerifierOutcomes == {"ok", "timeout"}

\* identity_handler.requestEmailToken / requestMsisdnToken: the identity
\* server's answer for this (address, client_secret, send_attempt), or a failure.
issue_token(address, body, outcome) ==
    IF outcome = "ok"
    THEN Ok(<<"sid", address, body.client_secret, body.send_attempt>>)
    ELSE Error(500, "M_UNKNOWN")

-----------------------------------------------------------------------------
(* Request-token servlets *)

EmailParams == {"id_server", "client_secret", "email", "send_attempt"}
MsisdnParams == {"id_server", "client_secret", "country", "phone_number", "send_attempt"}

EmailBodies ==
    [id_server : {"is"}, client_secret : {"cs"}, email : RawEmails, send_attempt : SendAttempts]
    \cup [id_server : {"is"}, client_secret : {"cs"}, email : {EmailLower}]

MsisdnBodies ==
    [id_server : {"is"}, client_secret : {"cs"}, country : Countries,
     phone_number : RawPhones, send_attempt : SendAttempts]
    \cup [id_server : {"is"}, client_secret : {"cs"}, country : Countries,
          phone_number : {<<7>>}]

\* EmailPasswordRequestTokenRestServlet.on_POST
EmailPasswordRequestToken(store, body, outcome) ==
    IF ~HasParams(body, EmailParams)
    THEN [resp |-> Error(400, "M_MISSING_PARAM"), calls |-> <<>>]
    ELSE LET existingUid == get_user_id_by_threepid(store, "email", body.email) IN
         IF existingUid = None
         THEN [resp |-> Error(400, "M_THREEPID_NOT_FOUND"),
               calls |-> <<"get_user_id_by_threepid">>]
         ELSE [resp |-> issue_token(body.email, body, outcome),
               calls |-> <<"get_user_id_by_threepid", "requestEmailToken">>]

\* MsisdnPasswordRequestTokenRestServlet.on_POST
MsisdnPasswordRequestToken(store, body, outcome) ==
    IF ~HasParams(body, MsisdnParams)
    THEN [resp |-> Error(400, "M_MISSING_PARAM"), calls |-> <<>>]
    ELSE LET msisdn == phone_number_to_msisdn(body.country, body.phone_number)
             existingUid == get_user_id_by_threepid(store, "msisdn", msisdn) IN
         IF existingUid = None
         THEN [resp |-> Error(400, "M_THREEPID_NOT_FOUND"),
               calls |-> <<"get_user_id_by_threepid">>]
         ELSE [resp |-> issue_token(body.phone_number, body, outcome),
               calls |-> <<"get_user_id_by_threepid", "requestMsisdnToken">>]

\* Variant: the token is issued without the ownership guard.
EmailThreepidRequestToken_NoGuard(store, body, outcome) ==
    IF ~HasParams(body, EmailParams)
    THEN [resp |-> Error(400, "M_MISSING_PARAM"), calls |-> <<>>]
    ELSE [resp |-> issue_token(body.email, body, outcome),
          calls |-> <<"get_user_id_by_threepid", "requestEmailToken">>]

\* EmailThreepidRequestTokenRestServlet.on_POST
EmailThreepidRequestToken(store, body, outcome) ==
    IF ~HasParams(body, EmailParams)
    THEN [resp |-> Error(400, "M_MISSING_PARAM"), calls |-> <<>>]
    ELSE LET existingUid == get_user_id_by_threepid(store, "email", body.email) IN
         IF existingUid # None
         THEN [resp |-> Error(400, "M_THREEPID_IN_USE"),
               calls |-> <<"get_user_id_by_threepid">>]
         ELSE [resp |-> issue_token(body.email, body, outcome),
               calls |-> <<"get_user_id_by_threepid", "requestEmailToken">>]

\* Variant: the token is requested before the guard is evaluated.
MsisdnThreepidRequestToken_IssueFirst(store, body, outcome) ==
    IF ~HasParams(body, MsisdnParams)
    THEN [resp |-> Error(400, "M_MISSING_PARAM"), calls |-> <<>>]
    ELSE LET msisdn == phone_number_to_msisdn(body.country, body.phone_number)
             existingUid == get_user_id_by_threepid(store, "msisdn", msisdn) IN
         IF existingUid # None
         THEN [resp |-> Error(400, "M_THREEPID_IN_USE"),
               calls |-> <<"requestMsisdnToken", "get_user_id_by_threepid">>]
         ELSE [resp |-> issue_token(body.phone_number, body, outcome),
               calls |-> <<"requestMsisdnToken", "get_user_id_by_threepid">>]

\* MsisdnThreepidRequestTokenRestServlet.on_POST
MsisdnThreepidRequestToken(store, body, outcome) ==
    IF ~HasParams(body, MsisdnParams)
    THEN [resp |-> Error(400, "M_MISSING_PARAM"), calls |-> <<>>]
    ELSE LET msisdn == phone_number_to_msisdn(body.country, body.phone_number)
             existingUid == get_user_id_by_threepid(store, "msisdn", msisdn) IN
         IF existingUid # None
         THEN [resp |-> Error(400, "M_THREEPID_IN_USE"),
               calls |-> <<"get_user_id_by_threepid">>]
         ELSE [resp |-> issue_token(body.phone_number, body, outcome),
               calls |-> <<"get_user_id_by_threepid", "requestMsisdnToken">>]

\* The four endpoints by (flow policy, medium).
RequestToken(policy, medium, store, body, outcome) ==
    IF policy = "password-reset"
    THEN IF medium = "email" THEN EmailPasswordRequestToken(store, body, outcome)
                             ELSE MsisdnPasswordRequestToken(store, body, outcome)
    ELSE IF medium = "email" THEN EmailThreepidRequestToken(store, body, outcome)
                             ELSE MsisdnThreepidRequestToken(store, body, outcome)

Policies == {"password-reset", "add-3pid"}
Mediums == {"email", "msisdn"}
TokenBodies(medium) == IF medium = "email" THEN EmailBodies ELSE MsisdnBodies

\* One request to one of the four request-token endpoints.
RequestTokenPost(policy, medium, body, outcome) ==
    LET r == RequestToken(policy, medium, threepids, body, outcome) IN
    /\ last' = [op |-> "requestToken", policy |-> policy, medium |-> medium,
                body |-> body, resp |-> r.resp, calls |-> r.calls]
    /\ UNCHANGED <<threepids, deactivated, sessions, add>>

-----------------------------------------------------------------------------
(* ThreepidDeleteRestServlet *)

DeleteBodies ==
    [medium : {"email"}, address : RawEmails]
    \cup [medium : {"msisdn"}, address : Msisdns]
    \cup [medium : {"email"}]

\* Variant: the association is deleted for whoever owns the submitted address.
ThreepidDeleteArgs_Owner(store, requester, body) ==
    [user_id |-> get_user_id_by_threepid(store, body.medium, body.address),
     medium |-> body.medium, address |-> body.address]

\* The arguments on_POST hands to auth_handler.delete_threepid.
ThreepidDeleteArgs(store, requester, body) ==
    [user_id |-> requester.user, medium |-> body.medium, address |-> body.address]

\* What on_POST answers for the handler's outcome: an error raised by the
\* handler propagates, otherwise 200 {}.
ThreepidDeleteResp(result) ==
    IF result = "not_owner" THEN Error(403, "NotOwner")
    ELSE IF result = "not_found" THEN Error(404, "NotFound")
    ELSE Ok(<<>>)

\* ThreepidDeleteRestServlet.on_POST; requester is NoRequester without an access token.
ThreepidDelete(store, deact, requester, body) ==
    IF ~HasParams(body, {"medium", "address"})
    THEN [store |-> store, resp |-> Error(400, "M_MISSING_PARAM"), calls |-> <<>>]
    ELSE IF get_user_by_req(requester, deact) # NoResp
    THEN [store |-> store, resp |-> get_user_by_req(requester, deact), calls |-> <<>>]
    ELSE LET a == ThreepidDeleteArgs(store, requester, body)
             d == delete_threepid(store, a.user_id, a.medium, a.address) IN
         [store |-> d.store, resp |-> ThreepidDeleteResp(d.result),
          calls |-> <<"delete_threepid">>]

ThreepidDeletePost(requester, body) ==
    LET r == ThreepidDelete(threepids, deactivated, requester, body) IN
    /\ threepids' = r.store
    /\ last' = [op |-> "deleteThreepid", requester |-> requester, body |-> body,
                resp |-> r.resp, calls |-> r.calls]
    /\ UNCHANGED <<deactivated, sessions, add>>

-----------------------------------------------------------------------------
(* ThreepidRestServlet.on_POST *)

\* A Python dict without keys (and the value of a local not yet assigned).
Empty == [k \in {} |-> k]

VerifiedThreepids ==
    [medium : {"email"}, address : RawEmails, validated_at : ValidatedAts]
    \cup [medium : {"msisdn"}, address : Msisdns, validated_at : ValidatedAts]

\* An identity-server answer that lacks validated_at.
MalformedThreepid == [medium |-> "email", address |-> EmailLower]

\* Credentials, identified by what the identity server will answer for them.
CredsSet == [threepid : VerifiedThreepids \cup {Empty, MalformedThreepid}]

\* identity_handler.threepid_from_creds
threepid_from_creds(creds) == creds.threepid

\* identity_handler.bind_threepid: publish_binding(creds, user_id) -> success | failure
BindOutcomes == {"success", "failure"}

AddBodies ==
    [three_pid_creds : CredsSet, bind : BOOLEAN]
    \cup [threePidCreds : {[threepid |-> t] : t \in VerifiedThreepids}]
    \cup [bind : {TRUE}]

\* body.get('three_pid_creds', body.get('threePidCreds'))
ThreePidCreds(body) ==
    IF "three_pid_creds" \in DOMAIN body THEN body.three_pid_creds
    ELSE IF "threePidCreds" \in DOMAIN body THEN body.threePidCreds
    ELSE Empty

HasCreds(body) == {"three_pid_creds", "threePidCreds"} \cap DOMAIN body # {}

\* 'bind' in body and body['bind']
BindRequested(body) == "bind" \in DOMAIN body /\ body.bind

IdleAdd == [pc |-> "idle", creds |-> Empty, bind |-> FALSE, threepid |-> Empty,
            resp |-> NoResp, calls |-> <<>>, bound |-> ""]

AddDone(threepid, resp, calls) ==
    [pc |-> "done", creds |-> Empty, bind |-> FALSE, threepid |-> threepid,
     resp |-> resp, calls |-> calls, bound |-> ""]

\* on_POST up to the answer of threepid_from_creds: the parameter check, the
\* credential exchange and the check of the exchanged triple.
ThreepidExchange(requester, deact, body) ==
    IF ~HasCreds(body)
    THEN AddDone(Empty, Error(400, "M_MISSING_PARAM"), <<>>)
    ELSE IF get_user_by_req(requester, deact) # NoResp
    THEN AddDone(Empty, get_user_by_req(requester, deact), <<>>)
    ELSE LET creds == ThreePidCreds(body)
             threepid == threepid_from_creds(creds) IN
         IF DOMAIN threepid = {}
         THEN AddDone(Empty, Error(400, "M_THREEPID_AUTH_FAILED"), <<"threepid_from_creds">>)
         ELSE IF ~({"medium", "address", "validated_at"} \subseteq DOMAIN threepid)
         THEN AddDone(threepid, Error(500, "M_UNKNOWN"), <<"threepid_from_creds">>)
         ELSE [pc |-> "exchanged", creds |-> creds, bind |-> BindRequested(body),
               threepid |-> threepid, resp |-> NoResp,
               calls |-> <<"threepid_from_creds">>, bound |-> ""]

\* A client with a valid access token for user u posts to /account/3pid.
AddExchange(u, body) ==
    /\ add[u].pc \in {"idle", "done"}
    /\ add' = [add EXCEPT ![u] =
                 ThreepidExchange([user |-> u, app_service |-> FALSE], deactivated, body)]
    /\ UNCHANGED <<threepids, deactivated, sessions, last>>

\* Variant: the association is written without the handler's uniqueness check.
ThreepidInsertCall_Unchecked(store, user_id, threepid) ==
    [store |-> store \cup {[medium |-> threepid.medium,
                            address |-> Normalize(threepid.medium, threepid.address),
                            user_id |-> user_id, validated_at |-> threepid.validated_at]},
     result |-> "success"]

\* Variant: an insert that conflicts replaces the owner before it reports the conflict.
ThreepidInsertCall_Overwrite(store, user_id, threepid) ==
    LET key == Normalize(threepid.medium, threepid.address)
        r == add_threepid(store, user_id, threepid.medium, threepid.address,
                          threepid.validated_at)
    IN IF r.result = "conflict"
       THEN [store |-> {t \in store : ~(t.medium = threepid.medium /\ t.address = key)}
                       \cup {[medium |-> threepid.medium, address |-> key,
                               user_id |-> user_id, validated_at |-> threepid.validated_at]},
             result |-> "conflict"]
       ELSE r

\* The call of auth_handler.add_threepid for the requester and the exchanged triple.
ThreepidInsertCall(store, user_id, threepid) ==
    add_threepid(store, user_id, threepid.medium, threepid.address, threepid.validated_at)

\* Variant: an error raised by the insert is swallowed.
ThreepidInserted_Swallowed(slot, result) ==
    IF slot.bind
    THEN [slot EXCEPT !.pc = "inserted", !.calls = Append(slot.calls, "add_threepid")]
    ELSE AddDone(slot.threepid, Ok(<<>>), Append(slot.calls, "add_threepid"))

\* on_POST after the insert returned or raised.
ThreepidInserted(slot, result) ==
    IF result = "conflict"
    THEN AddDone(slot.threepid, Error(400, "M_THREEPID_IN_USE"),
                 Append(slot.calls, "add_threepid"))
    ELSE IF slot.bind
    THEN [slot EXCEPT !.pc = "inserted", !.calls = Append(slot.calls, "add_threepid")]
    ELSE AddDone(slot.threepid, Ok(<<>>), Append(slot.calls, "add_threepid"))

AddInsert(u) ==
    /\ add[u].pc = "exchanged"
    /\ LET r == ThreepidInsertCall(threepids, u, add[u].threepid) IN
       /\ threepids' = r.store
       /\ add' = [add EXCEPT ![u] = ThreepidInserted(add[u], r.result)]
    /\ UNCHANGED <<deactivated, sessions, last>>

\* on_POST after identity_handler.bind_threepid returned: its result is
\* discarded and the servlet answers 200 {}.
ThreepidBound(slot, outcome) ==
    [AddDone(slot.threepid, Ok(<<>>), Append(slot.calls, "bind_threepid"))
        EXCEPT !.bound = outcome]

\* Variant: a failed publication undoes the local insert.
AddBind_Rollback(u, outcome) ==
    /\ add[u].pc = "inserted"
    /\ add' = [add EXCEPT ![u] = ThreepidBound(add[u], outcome)]
    /\ threepids' = IF outcome = "failure"
                    THEN {t \in threepids : t.user_id # u}
                    ELSE threepids
    /\ UNCHANGED <<deactivated, sessions, last>>

\* on_POST resumes after the yield on identity_handler.bind_threepid.
AddBind(u, outcome) ==
    /\ add[u].pc = "inserted"
    /\ add' = [add EXCEPT ![u] = ThreepidBound(add[u], outcome)]
    /\ UNCHANGED <<threepids, deactivated, sessions, last>>

\* A post to /account/3pid without a valid access token.
AddNoToken(body) ==
    /\ last' = [op |-> "addThreepid", body |-> body,
                resp |-> ThreepidExchange(NoRequester, deactivated, body).resp,
                calls |-> <<>>]
    /\ UNCHANGED <<threepids, deactivated, sessions, add>>

-----------------------------------------------------------------------------
(* Interactive authentication (auth_handler.check_auth) *)

\* synapse.api.constants.LoginType
PASSWORD == "m.login.password"
EMAIL_IDENTITY == "m.login.email.identity"
MSISDN == "m.login.msisdn"
StageTypes == {PASSWORD, EMAIL_IDENTITY, MSISDN}

SessionIds == {"s1"}

\* A threepid an identity server verified that lacks its address.
NoAddressThreepid == [medium |-> "email", validated_at |-> 1000]

\* What a client submits for a stage, identified by what its verifier will find:
\* the user whose password it is (None for a wrong password), or the threepid
\* the identity server exchanges the credentials for (Empty when it refuses).
PasswordProofs == [user : Users \cup {None}]
ThreepidProofs(medium) ==
    [threepid : {t \in VerifiedThreepids : t.medium = medium /\ t.address # EmailLower}
                \cup (IF medium = "email" THEN {NoAddressThreepid} ELSE {}) \cup {Empty}]

AuthSubmissions ==
    [session : SessionIds, type : {PASSWORD}, proof : PasswordProofs]
    \cup [session : SessionIds, type : {EMAIL_IDENTITY}, proof : ThreepidProofs("email")]
    \cup [session : SessionIds, type : {MSISDN}, proof : ThreepidProofs("msisdn")]
    \cup [session : SessionIds, type : {"m.login.dummy"}, proof : {[user |-> None]}]

\* The verifier of one stage: the verified payload, or the error it raises.
\* A deactivated account's password is rejected.
VerifyStage(type, proof, deact) ==
    IF type = PASSWORD
    THEN IF proof.user = None \/ proof.user \in deact
         THEN [ok |-> FALSE, error |-> Error(403, "M_FORBIDDEN")]
         ELSE [ok |-> TRUE, payload |-> proof.user]
    ELSE IF DOMAIN proof.threepid = {}
         THEN [ok |-> FALSE, error |-> Error(401, "M_UNAUTHORIZED")]
         ELSE [ok |-> TRUE, payload |-> proof.threepid]

\* Authenticated iff some alternative's stages are all completed.
Authenticated(flows, completed) ==
    \E i \in 1..Len(flows) : flows[i] \subseteq DOMAIN completed

\* The answer of an unauthenticated round: the alternatives, the stages
\* completed so far and the session to continue with.
Prompt(flows, completed, sid) ==
    [flows |-> flows, completed |-> DOMAIN completed, session |-> sid]

\* Variant: a stage the session already completed is verified again.
check_auth_Reverify(flows, body, sess, deact) ==
    LET Answer(authed, result, store, verified, error) ==
            [authed |-> authed, result |-> result, params |-> body,
             sessions |-> store, verified |-> verified, error |-> error]
    IN
    IF "auth" \notin DOMAIN body
    THEN \* a new session; one beyond SessionIds is never continued and not kept
         LET free == SessionIds \ DOMAIN sess
             sid == IF free = {} THEN "untracked" ELSE CHOOSE x \in free : TRUE IN
         Answer(FALSE, Prompt(flows, Empty, sid),
                IF free = {} THEN sess
                ELSE [x \in DOMAIN sess \cup {sid} |-> IF x = sid THEN Empty ELSE sess[x]],
                <<>>, NoResp)
    ELSE LET auth == body.auth
             sid == auth.session
             completed == IF sid \in DOMAIN sess THEN sess[sid] ELSE Empty IN
         IF auth.type \notin StageTypes
         THEN Answer(FALSE, Empty, sess, <<>>, Error(400, "M_UNRECOGNIZED"))
         ELSE LET again == FALSE
                  v == VerifyStage(auth.type, auth.proof, deact)
                  after ==
                      IF again \/ ~v.ok THEN completed
                      ELSE [t \in DOMAIN completed \cup {auth.type} |->
                               IF t = auth.type THEN v.payload ELSE completed[t]]
                  store == [x \in DOMAIN sess \cup {sid} |-> IF x = sid THEN after ELSE sess[x]]
                  verified == IF again THEN <<>> ELSE <<auth.type>> IN
              IF ~again /\ ~v.ok
              THEN Answer(FALSE, Empty, store, verified, v.error)
              ELSE IF Authenticated(flows, after)
              THEN Answer(TRUE, after, store, verified, NoResp)
              ELSE Answer(FALSE, Prompt(flows, after, sid), store, verified, NoResp)

\* auth_handler.check_auth(flows, body, ip): evaluate the submitted stage against
\* the session's completed stages.  Yields the servlet's (authed, result, params),
\* the session store afterwards, the stage verifiers invoked, and the error raised
\* instead (NoResp when none).
check_auth(flows, body, sess, deact) ==
    LET Answer(authed, result, store, verified, error) ==
            [authed |-> authed, result |-> result, params |-> body,
             sessions |-> store, verified |-> verified, error |-> error]
    IN
    IF "auth" \notin DOMAIN body
    THEN \* a new session; one beyond SessionIds is never continued and not kept
         LET free == SessionIds \ DOMAIN sess
             sid == IF free = {} THEN "untracked" ELSE CHOOSE x \in free : TRUE IN
         Answer(FALSE, Prompt(flows, Empty, sid),
                IF free = {} THEN sess
                ELSE [x \in DOMAIN sess \cup {sid} |-> IF x = sid THEN Empty ELSE sess[x]],
                <<>>, NoResp)
    ELSE LET auth == body.auth
             sid == auth.session
             completed == IF sid \in DOMAIN sess THEN sess[sid] ELSE Empty IN
         IF auth.type \notin StageTypes
         THEN Answer(FALSE, Empty, sess, <<>>, Error(400, "M_UNRECOGNIZED"))
         ELSE LET again == auth.type \in DOMAIN completed
                  v == VerifyStage(auth.type, auth.proof, deact)
                  after ==
                      IF again \/ ~v.ok THEN completed
                      ELSE [t \in DOMAIN completed \cup {auth.type} |->
                               IF t = auth.type THEN v.payload ELSE completed[t]]
                  store == [x \in DOMAIN sess \cup {sid} |-> IF x = sid THEN after ELSE sess[x]]
                  verified == IF again THEN <<>> ELSE <<auth.type>> IN
              IF ~again /\ ~v.ok
              THEN Answer(FALSE, Empty, store, verified, v.error)
              ELSE IF Authenticated(flows, after)
              THEN Answer(TRUE, after, store, verified, NoResp)
              ELSE Answer(FALSE, Prompt(flows, after, sid), store, verified, NoResp)

-----------------------------------------------------------------------------
(* PasswordRestServlet *)

\* Variant: the three stages are passed as one alternative.
PasswordFlows_Conjoined == <<{PASSWORD, EMAIL_IDENTITY, MSISDN}>>

\* The alternatives on_POST passes to check_auth.
PasswordFlows == <<{PASSWORD}, {EMAIL_IDENTITY}, {MSISDN}>>

NewPasswords == {"pw1"}

\* No call of auth_handler.set_password / deactivate_account.
NoEffect == [user_id |-> None]

\* Variant: the password-verified user is not compared with the requester.
ResolveUser_NoCrossCheck(result, store, deact, requester) ==
    IF PASSWORD \in DOMAIN result
    THEN IF get_user_by_req(requester, deact) # NoResp
         THEN [user_id |-> None, error |-> get_user_by_req(requester, deact), calls |-> <<>>]
         ELSE [user_id |-> result[PASSWORD], error |-> NoResp, calls |-> <<>>]
    ELSE [user_id |-> None, error |-> Error(500, "M_UNKNOWN"), calls |-> <<>>]

\* The user the request is authorised to act for, from the completed stages:
\* lines 117-144 of on_POST.  user_id is None when an error is raised instead.
ResolveUser(result, store, deact, requester) ==
    IF PASSWORD \in DOMAIN result
    THEN IF get_user_by_req(requester, deact) # NoResp
         THEN [user_id |-> None, error |-> get_user_by_req(requester, deact), calls |-> <<>>]
         ELSE IF requester.user # result[PASSWORD]
         THEN [user_id |-> None, error |-> Error(400, "M_UNKNOWN"), calls |-> <<>>]
         ELSE [user_id |-> requester.user, error |-> NoResp, calls |-> <<>>]
    ELSE IF EMAIL_IDENTITY \in DOMAIN result
    THEN LET threepid == result[EMAIL_IDENTITY] IN
         IF "medium" \notin DOMAIN threepid \/ "address" \notin DOMAIN threepid
         THEN [user_id |-> None, error |-> Error(500, "M_UNKNOWN"), calls |-> <<>>]
         ELSE LET address == IF threepid.medium = "email"
                             THEN StrLower(threepid.address) ELSE threepid.address
                  threepid_user_id == get_user_id_by_threepid(store, threepid.medium, address)
              IN IF threepid_user_id = None
                 THEN [user_id |-> None, error |-> Error(404, "M_NOT_FOUND"),
                       calls |-> <<"get_user_id_by_threepid">>]
                 ELSE [user_id |-> threepid_user_id, error |-> NoResp,
                       calls |-> <<"get_user_id_by_threepid">>]
    ELSE [user_id |-> None, error |-> Error(500, "M_UNKNOWN"), calls |-> <<>>]

\* Variant: the password is set before the outcome of the authentication round
\* is looked at.
ChangePassword_Unauthenticated(store, sess, deact, requester, body) ==
    LET a == check_auth(PasswordFlows, body, sess, deact)
        Answer(resp, calls, effect) ==
            [resp |-> resp, calls |-> <<"check_auth">> \o calls, effect |-> effect,
             sessions |-> a.sessions, verified |-> a.verified,
             authed |-> a.authed, result |-> a.result]
    IN
    IF a.error # NoResp THEN Answer(a.error, <<>>, NoEffect)
    ELSE IF ~a.authed
    THEN IF requester.user # None /\ "new_password" \in DOMAIN a.params
         THEN Answer([code |-> 401, errcode |-> "", ret |-> a.result], <<"set_password">>,
                     [user_id |-> requester.user, new_password |-> a.params.new_password])
         ELSE Answer([code |-> 401, errcode |-> "", ret |-> a.result], <<>>, NoEffect)
    ELSE LET r == ResolveUser(a.result, store, deact, requester) IN
         IF r.error # NoResp THEN Answer(r.error, r.calls, NoEffect)
         ELSE IF "new_password" \notin DOMAIN a.params
         THEN Answer(Error(400, "M_MISSING_PARAM"), r.calls, NoEffect)
         ELSE Answer(Ok(<<>>), Append(r.calls, "set_password"),
                     [user_id |-> r.user_id, new_password |-> a.params.new_password])

\* PasswordRestServlet.on_POST
ChangePassword(store, sess, deact, requester, body) ==
    LET a == check_auth(PasswordFlows, body, sess, deact)
        Answer(resp, calls, effect) ==
            [resp |-> resp, calls |-> <<"check_auth">> \o calls, effect |-> effect,
             sessions |-> a.sessions, verified |-> a.verified,
             authed |-> a.authed, result |-> a.result]
    IN
    IF a.error # NoResp THEN Answer(a.error, <<>>, NoEffect)
    ELSE IF ~a.authed THEN Answer([code |-> 401, errcode |-> "", ret |-> a.result], <<>>, NoEffect)
    ELSE LET r == ResolveUser(a.result, store, deact, requester) IN
         IF r.error # NoResp THEN Answer(r.error, r.calls, NoEffect)
         ELSE IF "new_password" \notin DOMAIN a.params
         THEN Answer(Error(400, "M_MISSING_PARAM"), r.calls, NoEffect)
         ELSE Answer(Ok(<<>>), Append(r.calls, "set_password"),
                     [user_id |-> r.user_id, new_password |-> a.params.new_password])

PasswordBodies ==
    [auth : AuthSubmissions, new_password : NewPasswords]
    \cup [auth : {x \in AuthSubmissions : x.type = PASSWORD /\ x.proof.user # None}]
    \cup [new_password : NewPasswords]

ChangePasswordPost(requester, body) ==
    LET r == ChangePassword(threepids, sessions, deactivated, requester, body) IN
    /\ sessions' = r.sessions
    /\ last' = [op |-> "changePassword", requester |-> requester, body |-> body,
                resp |-> r.resp, calls |-> r.calls, effect |-> r.effect,
                verified |-> r.verified, authed |-> r.authed, result |-> r.result]
    /\ UNCHANGED <<threepids, deactivated, add>>

-----------------------------------------------------------------------------
(* DeactivateAccountRestServlet *)

DeactivateFlows == <<{PASSWORD}>>

\* Variant: any requester with an access token passes for a service.
IsAppService_AnyRequester(requester) == requester.user # None

\* `if requester and requester.app_service`: the service-level principal
IsAppService(requester) == requester.user # None /\ requester.app_service

\* auth_handler.deactivate_account
deactivate_account(deact, user_id) == deact \cup {user_id}

\* Variant: the password-verified user is not compared with the requester.
Deactivate_NoCrossCheck(sess, deact, requester, body) ==
    LET a == check_auth(DeactivateFlows, body, sess, deact)
        Early(resp, calls, effect, after) ==
            [resp |-> resp, calls |-> calls, effect |-> effect, deactivated |-> after,
             sessions |-> sess, verified |-> <<>>, authed |-> FALSE, result |-> Empty]
        Answer(resp, calls, effect, after) ==
            [resp |-> resp, calls |-> <<"check_auth">> \o calls, effect |-> effect,
             deactivated |-> after, sessions |-> a.sessions, verified |-> a.verified,
             authed |-> a.authed, result |-> a.result]
    IN
    IF requester.user # None /\ get_user_by_req(requester, deact) # NoResp
    THEN Early(get_user_by_req(requester, deact), <<>>, NoEffect, deact)
    ELSE IF IsAppService(requester)
    THEN Early(Ok(<<>>), <<"deactivate_account">>, [user_id |-> requester.user],
               deactivate_account(deact, requester.user))
    ELSE IF a.error # NoResp THEN Answer(a.error, <<>>, NoEffect, deact)
    ELSE IF ~a.authed
    THEN Answer([code |-> 401, errcode |-> "", ret |-> a.result], <<>>, NoEffect, deact)
    ELSE IF PASSWORD \in DOMAIN a.result
    THEN LET user_id == a.result[PASSWORD] IN
         IF requester.user = None
         THEN Answer(Error(400, "M_MISSING_TOKEN"), <<>>, NoEffect, deact)
         ELSE Answer(Ok(<<>>), <<"deactivate_account">>, [user_id |-> user_id],
                     deactivate_account(deact, user_id))
    ELSE Answer(Error(500, "M_UNKNOWN"), <<>>, NoEffect, deact)

\* Variant: deactivating an account that is deactivated already is an error.
Deactivate_RejectRepeat(sess, deact, requester, body) ==
    LET a == check_auth(DeactivateFlows, body, sess, deact)
        Early(resp, calls, effect, after) ==
            [resp |-> resp, calls |-> calls, effect |-> effect, deactivated |-> after,
             sessions |-> sess, verified |-> <<>>, authed |-> FALSE, result |-> Empty]
        Answer(resp, calls, effect, after) ==
            [resp |-> resp, calls |-> <<"check_auth">> \o calls, effect |-> effect,
             deactivated |-> after, sessions |-> a.sessions, verified |-> a.verified,
             authed |-> a.authed, result |-> a.result]
    IN
    IF requester.user # None /\ get_user_by_req(requester, deact) # NoResp
    THEN Early(get_user_by_req(requester, deact), <<>>, NoEffect, deact)
    ELSE IF IsAppService(requester) /\ requester.user \in deact
    THEN Early(Error(400, "M_UNKNOWN"), <<"deactivate_account">>, NoEffect, deact)
    ELSE IF IsAppService(requester)
    THEN Early(Ok(<<>>), <<"deactivate_account">>, [user_id |-> requester.user],
               deactivate_account(deact, requester.user))
    ELSE IF a.error # NoResp THEN Answer(a.error, <<>>, NoEffect, deact)
    ELSE IF ~a.authed
    THEN Answer([code |-> 401, errcode |-> "", ret |-> a.result], <<>>, NoEffect, deact)
    ELSE IF PASSWORD \in DOMAIN a.result
    THEN LET user_id == a.result[PASSWORD] IN
         IF requester.user = None
         THEN Answer(Error(400, "M_MISSING_TOKEN"), <<>>, NoEffect, deact)
         ELSE IF requester.user # user_id
         THEN Answer(Error(400, "M_UNKNOWN"), <<>>, NoEffect, deact)
         ELSE Answer(Ok(<<>>), <<"deactivate_account">>, [user_id |-> user_id],
                     deactivate_account(deact, user_id))
    ELSE Answer(Error(500, "M_UNKNOWN"), <<>>, NoEffect, deact)

\* DeactivateAccountRestServlet.on_POST
Deactivate(sess, deact, requester, body) ==
    LET a == check_auth(DeactivateFlows, body, sess, deact)
        Early(resp, calls, effect, after) ==
            [resp |-> resp, calls |-> calls, effect |-> effect, deactivated |-> after,
             sessions |-> sess, verified |-> <<>>, authed |-> FALSE, result |-> Empty]
        Answer(resp, calls, effect, after) ==
            [resp |-> resp, calls |-> <<"check_auth">> \o calls, effect |-> effect,
             deactivated |-> after, sessions |-> a.sessions, verified |-> a.verified,
             authed |-> a.authed, result |-> a.result]
    IN
    IF requester.user # None /\ get_user_by_req(requester, deact) # NoResp
    THEN Early(get_user_by_req(requester, deact), <<>>, NoEffect, deact)
    ELSE IF IsAppService(requester)
    THEN Early(Ok(<<>>), <<"deactivate_account">>, [user_id |-> requester.user],
               deactivate_account(deact, requester.user))
    ELSE IF a.error # NoResp THEN Answer(a.error, <<>>, NoEffect, deact)
    ELSE IF ~a.authed
    THEN Answer([code |-> 401, errcode |-> "", ret |-> a.result], <<>>, NoEffect, deact)
    ELSE IF PASSWORD \in DOMAIN a.result
    THEN LET user_id == a.result[PASSWORD] IN
         IF requester.user = None
         THEN Answer(Error(400, "M_MISSING_TOKEN"), <<>>, NoEffect, deact)
         ELSE IF requester.user # user_id
         THEN Answer(Error(400, "M_UNKNOWN"), <<>>, NoEffect, deact)
         ELSE Answer(Ok(<<>>), <<"deactivate_account">>, [user_id |-> user_id],
                     deactivate_account(deact, user_id))
    ELSE Answer(Error(500, "M_UNKNOWN"), <<>>, NoEffect, deact)

DeactivateBodies ==
    [auth : {x \in AuthSubmissions : x.type \in {PASSWORD, EMAIL_IDENTITY}}]
    \cup {Empty}

DeactivatePost(requester, body) ==
    LET r == Deactivate(sessions, deactivated, requester, body) IN
    /\ sessions' = r.sessions
    /\ deactivated' = r.deactivated
    /\ last' = [op |-> "deactivateAccount", requester |-> requester, body |-> body,
                resp |-> r.resp, calls |-> r.calls, effect |-> r.effect,
                verified |-> r.verified, authed |-> r.authed, result |-> r.result,
                before |-> deactivated]
    /\ UNCHANGED <<threepids, add>>

-----------------------------------------------------------------------------
(* Specifications *)

PlainRequesters == {r \in Requesters : ~r.app_service}

Init ==
    /\ threepids = {}
    /\ deactivated = {}
    /\ sessions = Empty
    /\ add = [u \in Users |-> IdleAdd]
    /\ last = [op |-> "none"]

\* The threepid lifecycle: request-token, add and delete, with adds in flight
\* concurrently.
LifecycleAddBodies ==
    {b \in AddBodies : ~BindRequested(b) /\ HasCreds(b)
                       /\ ThreePidCreds(b).threepid \in VerifiedThreepids}
NextThreepid ==
    \/ \E policy \in Policies, medium \in Mediums, outcome \in VerifierOutcomes :
         \E body \in TokenBodies(medium) : RequestTokenPost(policy, medium, body, outcome)
    \/ \E requester \in PlainRequesters \cup {NoRequester}, body \in DeleteBodies :
         ThreepidDeletePost(requester, body)
    \/ \E u \in Users, body \in LifecycleAddBodies : AddExchange(u, body)
    \/ \E u \in Users : AddInsert(u)
    \/ \E body \in LifecycleAddBodies : AddNoToken(body)

SpecThreepid == Init /\ [][NextThreepid]_vars

\* Adds and deletes only.
NextAddDelete ==
    \/ \E requester \in PlainRequesters \cup {NoRequester}, body \in DeleteBodies :
         ThreepidDeletePost(requester, body)
    \/ \E u \in Users, body \in LifecycleAddBodies : AddExchange(u, body)
    \/ \E u \in Users : AddInsert(u)

SpecAddDelete == Init /\ [][NextAddDelete]_vars

\* Each user posts to /account/3pid once, the steps of the two requests
\* interleaved in every order.
NextAdd ==
    \/ \E u \in Users, body \in AddBodies : add[u].pc = "idle" /\ AddExchange(u, body)
    \/ \E u \in Users : AddInsert(u)
    \/ \E u \in Users, outcome \in BindOutcomes : AddBind(u, outcome)

SpecAdd == Init /\ [][NextAdd]_vars

\* The stores add and delete can leave behind: normalised keys, one owner each.
Associations ==
    [medium : {"email"}, address : {StrLower(e) : e \in RawEmails},
     user_id : Users, validated_at : ValidatedAts]
    \cup [medium : {"msisdn"}, address : Msisdns, user_id : Users, validated_at : ValidatedAts]

Stores ==
    {st \in SUBSET Associations :
        \A t1, t2 \in st : (t1.medium = t2.medium /\ t1.address = t2.address) => t1 = t2}

InitPassword ==
    /\ threepids \in Stores
    /\ deactivated = {}
    /\ sessions = Empty
    /\ add = [u \in Users |-> IdleAdd]
    /\ last = [op |-> "none"]

\* Password changes over a store of associations.
NextPassword ==
    \E requester \in PlainRequesters \cup {NoRequester}, body \in PasswordBodies :
        ChangePasswordPost(requester, body)

SpecPassword == InitPassword /\ [][NextPassword]_vars

\* Deactivations, by users and by application services.
NextDeactivate ==
    \E requester \in Requesters \cup {NoRequester}, body \in DeactivateBodies :
        DeactivatePost(requester, body)

SpecDeactivate == Init /\ [][NextDeactivate]_vars

\* Requests to the four request-token endpoints over a store of associations.
NextRequestToken ==
    \E policy \in Policies, medium \in Mediums, outcome \in VerifierOutcomes :
        \E body \in TokenBodies(medium) : RequestTokenPost(policy, medium, body, outcome)

SpecRequestToken == InitPassword /\ [][NextRequestToken]_vars

\* Password changes and deactivations by users, over the stores in which
\* @alice:hs owns at most one address.
MutationStores ==
    {st \in Stores : Cardinality(st) <= 1 /\ \A t \in st : t.user_id = "@alice:hs"}

InitMutation ==
    /\ threepids \in MutationStores
    /\ deactivated = {}
    /\ sessions = Empty
    /\ add = [u \in Users |-> IdleAdd]
    /\ last = [op |-> "none"]

NextMutation ==
    \/ \E requester \in PlainRequesters \cup {NoRequester}, body \in PasswordBodies :
         ChangePasswordPost(requester, body)
    \/ \E requester \in PlainRequesters \cup {NoRequester}, body \in DeactivateBodies :
         DeactivatePost(requester, body)

SpecMutation == InitMutation /\ [][NextMutation]_vars

\* The interactive-auth engine on its own: rounds of check_auth for a caller
\* with the alternatives [[A, B], [C]], next to the password servlet's rounds.
TwoStageFlows == <<{PASSWORD, EMAIL_IDENTITY}, {MSISDN}>>
UIABodies == [auth : AuthSubmissions] \cup {Empty}

\* One round of check_auth(flows, body).
UIARound(flows, body) ==
    LET a == check_auth(flows, body, sessions, deactivated) IN
    /\ sessions' = a.sessions
    /\ last' = [op |-> "check_auth", flows |-> flows, body |-> body,
                authed |-> a.authed, result |-> a.result, verified |-> a.verified,
                error |-> a.error]
    /\ UNCHANGED <<threepids, deactivated, add>>

NextUIA ==
    \/ \E body \in UIABodies : UIARound(TwoStageFlows, body)
    \/ \E requester \in PlainRequesters, body \in PasswordBodies :
         ChangePasswordPost(requester, body)

SpecUIA == Init /\ [][NextUIA]_vars

\* Every servlet, on the requests for one email address.
EmailCreds == {[threepid |-> t] : t \in {x \in VerifiedThreepids : x.medium = "email"}}
UpperBody == [id_server |-> "is", client_secret |-> "cs", email |-> EmailUpper, send_attempt |-> 1]
AliceProof == [session |-> "s1", type |-> PASSWORD, proof |-> [user |-> "@alice:hs"]]
Next ==
    \/ \E policy \in Policies : RequestTokenPost(policy, "email", UpperBody, "ok")
    \/ \E requester \in PlainRequesters :
         ThreepidDeletePost(requester, [medium |-> "email", address |-> EmailUpper])
    \/ \E u \in Users, body \in [three_pid_creds : EmailCreds, bind : {FALSE}] :
         AddExchange(u, body)
    \/ \E u \in Users : AddInsert(u)
    \/ \E body \in [three_pid_creds : EmailCreds, bind : {FALSE}] : AddNoToken(body)
    \/ \E requester \in PlainRequesters, pw \in NewPasswords :
         ChangePasswordPost(requester, [auth |-> AliceProof, new_password |-> pw])
    \/ \E requester \in {r \in Requesters : r.user = "@alice:hs"} :
         DeactivatePost(requester, [auth |-> AliceProof])

Spec == Init /\ [][Next]_vars

-----------------------------------------------------------------------------
(* Properties *)

\* Two addresses that differ at most in the case of their letters.
SameUpToCase(a, b) ==
    /\ Len(a) = Len(b)
    /\ \A i \in 1..Len(a) :
          \/ a[i] = b[i]
          \/ (a[i] \in 65..90 /\ b[i] = a[i] + 32)
          \/ (b[i] \in 65..90 /\ a[i] = b[i] + 32)

\* Two verified threepids with the same normalised (medium, address).
SameKey(t1, t2) ==
    /\ t1.medium = t2.medium
    /\ IF t1.medium = "email" THEN SameUpToCase(t1.address, t2.address)
                              ELSE t1.address = t2.address

\* The associations stored for the key of a verified threepid.
StoredFor(t) == {x \in threepids : SameKey(x, t)}

\* Both users' add requests have finished and were for the same key.
BothAddsDone(u1, u2) ==
    /\ u1 # u2
    /\ add[u1].pc = "done" /\ add[u2].pc = "done"
    /\ add[u1].threepid \in VerifiedThreepids /\ add[u2].threepid \in VerifiedThreepids
    /\ SameKey(add[u1].threepid, add[u2].threepid)

\* C1: when two distinct users run addThreepid concurrently, in any interleaving
\* of their exchange and insert steps, for credentials that verify to the same
\* normalised (medium, address), exactly one call returns success, the other
\* returns AddressAlreadyInUse (400 M_THREEPID_IN_USE), and the store ends with
\* exactly one association for that address.
C1_AtomicUniqueness ==
    \A u1, u2 \in Users :
        BothAddsDone(u1, u2) =>
            /\ \E w \in {u1, u2} :
                  /\ add[w].resp = Ok(<<>>)
                  /\ \A l \in {u1, u2} \ {w} : add[l].resp = Error(400, "M_THREEPID_IN_USE")
                  /\ \A x \in StoredFor(add[w].threepid) : x.user_id = w
            /\ Cardinality(StoredFor(add[u1].threepid)) = 1

\* Both requests were in flight together for differently spelled addresses of one key.
C1_Witness ==
    \E u1, u2 \in Users :
        /\ BothAddsDone(u1, u2)
        /\ add[u1].threepid.address # add[u2].threepid.address
        /\ add[u1].resp = Ok(<<>>)
        /\ add[u2].resp = Error(400, "M_THREEPID_IN_USE")

\* C2: in every reachable state, after any sequence of addThreepid,
\* deleteThreepid, requestVerificationToken, changePassword and
\* deactivateAccount calls, each (medium, normalised address) pair is associated
\* with at most one user_id.
C2_OneOwnerPerAddress ==
    \A t1, t2 \in threepids : SameKey(t1, t2) => t1.user_id = t2.user_id

\* An address is owned, a second user's add for it was refused, and a
\* deactivation has run since.
C2_Witness ==
    /\ threepids # {}
    /\ \E u \in Users : add[u].pc = "done" /\ add[u].resp = Error(400, "M_THREEPID_IN_USE")
    /\ last.op = "deactivateAccount"

\* The last request was a changePassword whose UIA round authenticated.
PasswordAuthed == last.op = "changePassword" /\ last.authed

\* C3: changePassword where the password-stage-verified user differs from the
\* bearer-authenticated requester fails with IdentityMismatch (400 M_UNKNOWN)
\* and set_password is not invoked in that request, for every pair of distinct
\* users.
C3_IdentityCrossCheck ==
    ( /\ PasswordAuthed
      /\ PASSWORD \in DOMAIN last.result
      /\ last.requester.user # None
      /\ last.requester.user # last.result[PASSWORD] )
    => /\ last.resp = Error(400, "M_UNKNOWN")
       /\ last.effect = NoEffect
       /\ \A i \in 1..Len(last.calls) : last.calls[i] # "set_password"

\* A request by one user whose password stage verified the other user, with a
\* new password supplied, was refused.
C3_Witness ==
    /\ PasswordAuthed
    /\ PASSWORD \in DOMAIN last.result
    /\ last.requester.user \in Users
    /\ last.result[PASSWORD] \in Users \ {last.requester.user}
    /\ "new_password" \in DOMAIN last.body
    /\ last.resp = Error(400, "M_UNKNOWN")

\* C4: in changePassword, if the winning UIA alternative was an email identity
\* stage or an msisdn stage, the target user is resolved by a store lookup on the
\* verified (medium, address), email lower-cased first, and the new password is
\* set for that owner; if the lookup finds no owner the call fails with
\* AddressNotFound (404 M_NOT_FOUND) and no password is set.
C4_IdentityStageResolves ==
    \A stage \in {EMAIL_IDENTITY, MSISDN} :
        ( /\ PasswordAuthed
          /\ DOMAIN last.result = {stage}
          /\ {"medium", "address"} \subseteq DOMAIN last.result[stage]
          /\ "new_password" \in DOMAIN last.body )
        => LET t == last.result[stage]
               owner == get_user_id_by_threepid(threepids, t.medium,
                                                Normalize(t.medium, t.address))
           IN IF owner = None
              THEN last.resp = Error(404, "M_NOT_FOUND") /\ last.effect = NoEffect
              ELSE /\ last.resp = Ok(<<>>)
                   /\ last.effect = [user_id |-> owner,
                                     new_password |-> last.body.new_password]

\* The submitted address as the request-token servlet of this medium derives it.
TokenAddress(medium, body) ==
    IF medium = "email" THEN body.email
    ELSE phone_number_to_msisdn(body.country, body.phone_number)

FullTokenBodies(medium) ==
    {b \in TokenBodies(medium) :
        HasParams(b, IF medium = "email" THEN EmailParams ELSE MsisdnParams)}

Succeeds(policy, medium, body) ==
    RequestToken(policy, medium, threepids, body, "ok").resp.code = 200

NormalizedOwner(medium, body) ==
    get_user_id_by_threepid(threepids, medium,
                            Normalize(medium, TokenAddress(medium, body)))

\* C6: requestVerificationToken applies the guard of its flow policy on the
\* normalised address: password-reset fails with AddressNotFound whenever the
\* address has no owner, add-3pid fails with AddressAlreadyInUse whenever it has
\* one; otherwise the identity verifier's response is returned unmodified.
C6_GuardOnNormalizedAddress ==
    [][ \A policy \in Policies, medium \in Mediums, outcome \in VerifierOutcomes :
          \A body \in FullTokenBodies(medium) :
             RequestTokenPost(policy, medium, body, outcome) =>
                IF policy = "password-reset" /\ NormalizedOwner(medium, body) = None
                THEN last'.resp = Error(400, "M_THREEPID_NOT_FOUND")
                ELSE IF policy = "add-3pid" /\ NormalizedOwner(medium, body) # None
                THEN last'.resp = Error(400, "M_THREEPID_IN_USE")
                ELSE last'.resp = issue_token(IF medium = "email" THEN body.email
                                              ELSE body.phone_number, body, outcome)
      ]_vars

\* C7: email addresses are lower-cased before the store lookup of
\* requestVerificationToken: an add-3pid request for an email whose lower-cased
\* form is owned fails with AddressAlreadyInUse, and the guard's outcome for an
\* email does not depend on the letter case of the submitted address.
C7_EmailLookupIgnoresCase ==
    [][ \A policy \in Policies, outcome \in VerifierOutcomes :
          \A body \in FullTokenBodies("email") :
             RequestTokenPost(policy, "email", body, outcome) =>
                /\ (policy = "add-3pid" /\ NormalizedOwner("email", body) # None)
                      => last'.resp = Error(400, "M_THREEPID_IN_USE")
                /\ \A other \in FullTokenBodies("email") :
                      SameUpToCase(body.email, other.email) =>
                         ( last'.resp.code = 200 <=>
                           RequestToken(policy, "email", threepids, other, outcome).resp.code = 200 )
      ]_vars

\* The owner of the normalised address a delete request names.
DeleteOwner(body) ==
    get_user_id_by_threepid(threepids, body.medium, Normalize(body.medium, body.address))

FullDeleteBodies == {b \in DeleteBodies : HasParams(b, {"medium", "address"})}

\* C8: deleteThreepid(userA, medium, address) removes the association only if it
\* is currently owned by userA; owned by another user the call reports NotOwner,
\* with no association NotFound, and the store is left unchanged.
C8_DeleteOnlyByOwner ==
    [][ \A requester \in PlainRequesters : \A body \in FullDeleteBodies :
          ThreepidDeletePost(requester, body) =>
             IF DeleteOwner(body) = None
             THEN last'.resp = Error(404, "NotFound") /\ threepids' = threepids
             ELSE IF DeleteOwner(body) # requester.user
             THEN last'.resp = Error(403, "NotOwner") /\ threepids' = threepids
             ELSE /\ last'.resp = Ok(<<>>)
                  /\ threepids' = {t \in threepids :
                                     ~(t.medium = body.medium
                                       /\ t.address = Normalize(body.medium, body.address))}
      ]_vars

\* A user's delete of an address another user owns was refused, and the
\* association is still there.
C8_Witness ==
    /\ last.op = "deleteThreepid"
    /\ last.resp = Error(403, "NotOwner")
    /\ \E t \in threepids :
          /\ t.medium = last.body.medium
          /\ SameUpToCase(t.address, last.body.address)
          /\ t.user_id \in Users \ {last.requester.user}

\* User u's add of an email succeeded and u still owns the association.
AddedAndOwned(u) ==
    /\ add[u].pc = "done" /\ add[u].resp = Ok(<<>>)
    /\ add[u].threepid.medium = "email"
    /\ \E t \in StoredFor(add[u].threepid) : t.user_id = u

\* C9: deleteThreepid normalises the address as addThreepid does: after a
\* successful addThreepid for U with verified email E, deleteThreepid(U, email,
\* E') with E' differing from E only in letter case removes the association.
C9_DeleteUsesAddKeySpace ==
    [][ \A requester \in PlainRequesters : \A body \in FullDeleteBodies :
          ( /\ ThreepidDeletePost(requester, body)
            /\ body.medium = "email"
            /\ AddedAndOwned(requester.user)
            /\ SameUpToCase(add[requester.user].threepid.address, body.address) )
          => /\ last'.resp = Ok(<<>>)
             /\ \A t \in threepids' : ~SameKey(t, add[requester.user].threepid)
      ]_vars

\* A user added an email in one spelling and deleted it in another: it is gone.
C9_Witness ==
    /\ last.op = "deleteThreepid" /\ last.resp = Ok(<<>>)
    /\ last.body.medium = "email"
    /\ LET slot == add[last.requester.user] IN
       /\ slot.pc = "done" /\ slot.resp = Ok(<<>>)
       /\ slot.threepid.medium = "email"
       /\ slot.threepid.address # last.body.address
       /\ SameUpToCase(slot.threepid.address, last.body.address)
       /\ StoredFor(slot.threepid) = {}

\* C10: deactivateAccount by a service-level principal with no auth block
\* succeeds and deactivates the account without any UIA evaluation; the same
\* request from a non-service principal yields 401 with a prompt for the
\* password stage and deactivates nothing.
C10_ServiceBypassesUIA ==
    [][ \A requester \in Requesters :
          ( DeactivatePost(requester, Empty)
            /\ get_user_by_req(requester, deactivated) = NoResp )
          => IF requester.app_service
             THEN /\ last'.resp = Ok(<<>>)
                  /\ deactivated' = deactivated \cup {requester.user}
                  /\ last'.calls = <<"deactivate_account">>
                  /\ last'.verified = <<>>
                  /\ sessions' = sessions
             ELSE /\ last'.resp.code = 401
                  /\ last'.resp.ret.flows = <<{PASSWORD}>>
                  /\ last'.resp.ret.completed = {}
                  /\ last'.effect = NoEffect
                  /\ deactivated' = deactivated
      ]_vars

\* A service deactivated the account it acts for with no auth block.
C10_Witness ==
    /\ last.op = "deactivateAccount"
    /\ last.requester.app_service
    /\ last.body = Empty
    /\ last.resp = Ok(<<>>)
    /\ last.requester.user \in deactivated
    /\ last.calls = <<"deactivate_account">>

\* C11: for a non-service requester, deactivateAccount deactivates an account
\* only when the password stage of UIA succeeded and the password-verified user
\* equals the requester's user; if they differ the call fails with
\* IdentityMismatch (400 M_UNKNOWN), without a bearer identity with a
\* missing-token error, and in both cases no account is deactivated.
C11_DeactivateCrossCheck ==
    [][ \A requester \in PlainRequesters \cup {NoRequester} : \A body \in DeactivateBodies :
          DeactivatePost(requester, body) =>
             /\ (deactivated' # deactivated \/ last'.effect # NoEffect) =>
                   /\ last'.authed
                   /\ PASSWORD \in DOMAIN last'.result
                   /\ requester.user # None
                   /\ last'.result[PASSWORD] = requester.user
                   /\ deactivated' = deactivated \cup {requester.user}
             /\ (last'.authed /\ requester.user = None) =>
                   /\ last'.resp = Error(400, "M_MISSING_TOKEN")
                   /\ deactivated' = deactivated
             /\ ( /\ last'.authed
                  /\ requester.user # None
                  /\ PASSWORD \in DOMAIN last'.result
                  /\ last'.result[PASSWORD] # requester.user ) =>
                   /\ last'.resp = Error(400, "M_UNKNOWN")
                   /\ deactivated' = deactivated
      ]_vars

\* A user's deactivation with another user's password was refused, and neither
\* account is deactivated.
C11_Witness ==
    /\ last.op = "deactivateAccount"
    /\ ~last.requester.app_service
    /\ last.requester.user \in Users
    /\ last.authed
    /\ last.result[PASSWORD] \in Users \ {last.requester.user}
    /\ last.resp = Error(400, "M_UNKNOWN")
    /\ deactivated = {}

\* The stages completed in the session the last request continued.
CompletedStages ==
    IF "auth" \in DOMAIN last.body /\ last.body.auth.session \in DOMAIN sessions
    THEN DOMAIN sessions[last.body.auth.session]
    ELSE {}

\* The last round of check_auth raised an error instead of reporting.
UIARaised ==
    IF last.op = "check_auth" THEN last.error # NoResp
    ELSE last.resp.errcode \in {"M_FORBIDDEN", "M_UNAUTHORIZED", "M_UNRECOGNIZED"}

\* C12: the UIA engine reports authenticated = true iff some alternative's full
\* stage set is a subset of the completed stages: with the alternatives
\* [[A, B], [C]], only A completed is not authenticated, A and B is, only C is;
\* with the change-password alternatives [[password], [email identity],
\* [msisdn]] any single completed stage authenticates.
C12_UIACompleteness ==
    /\ (last.op = "check_auth" /\ ~UIARaised) =>
          /\ last.authed <=> \E i \in 1..Len(last.flows) : last.flows[i] \subseteq CompletedStages
          /\ CompletedStages = {PASSWORD} => ~last.authed
          /\ CompletedStages = {PASSWORD, EMAIL_IDENTITY} => last.authed
          /\ CompletedStages = {MSISDN} => last.authed
    /\ (last.op = "changePassword" /\ ~UIARaised) =>
          /\ last.authed <=> CompletedStages # {}
          /\ ~last.authed <=> (last.resp.code = 401 /\ last.resp.errcode = "")
          /\ \A stage \in StageTypes : CompletedStages = {stage} => last.authed

\* A session with the alternatives [[A, B], [C]] was authenticated by A and B.
C12_Witness ==
    /\ last.op = "check_auth"
    /\ last.flows = TwoStageFlows
    /\ CompletedStages = {PASSWORD, EMAIL_IDENTITY}
    /\ last.authed

\* User u's request holds an association for the triple it exchanged.
OwnsExchanged(u, store) ==
    \E t \in store :
        /\ t.user_id = u
        /\ t.medium = add[u].threepid.medium
        /\ t.address = Normalize(t.medium, add[u].threepid.address)

C14_FailedAddLeavesNothing ==
    [][ \A u \in Users :
          (add'[u] # add[u] /\ add'[u].pc = "done" /\ add'[u].resp.code # 200) =>
             /\ threepids' = threepids
             /\ add'[u].bound = ""
             /\ \A i \in 1..Len(add'[u].calls) : add'[u].calls[i] # "bind_threepid"
             /\ IF add[u].pc = "exchanged"
                THEN add'[u].resp = Error(400, "M_THREEPID_IN_USE")
                ELSE \/ add'[u].resp = Error(400, "M_MISSING_PARAM")
                     \/ (add'[u].threepid = Empty
                           /\ add'[u].resp = Error(400, "M_THREEPID_AUTH_FAILED"))
                     \/ (add'[u].threepid = MalformedThreepid
                           /\ add'[u].resp = Error(500, "M_UNKNOWN"))
      ]_vars

\* One request's insert conflicted and the request failed; the other request's
\* association is the only one in the store.
C14_Witness ==
    \E u1, u2 \in Users :
        /\ add[u1].pc = "done" /\ add[u1].resp = Error(400, "M_THREEPID_IN_USE")
        /\ add[u2].pc = "done" /\ add[u2].resp = Ok(<<>>)
        /\ Cardinality(threepids) = 1
        /\ \A t \in threepids : t.user_id = u2

\* The last step was a round of UIA that continued an existing session.
ContinuedSession ==
    /\ last' # last \/ sessions' # sessions
    /\ last'.op \in {"check_auth", "changePassword"}
    /\ "auth" \in DOMAIN last'.body
    /\ last'.body.auth.session \in DOMAIN sessions

\* C15: across repeated UIA calls with the same session token the completed
\* stages accumulate and are never discarded, and re-submitting a stage the
\* session already completed is a no-op that returns the prior completion
\* without invoking that stage's verifier again.
C15_SessionAccumulates ==
    [][ ContinuedSession =>
          LET sid == last'.body.auth.session
              type == last'.body.auth.type IN
          /\ sid \in DOMAIN sessions'
          /\ \A t \in DOMAIN sessions[sid] :
                /\ t \in DOMAIN sessions'[sid]
                /\ sessions'[sid][t] = sessions[sid][t]
          /\ type \in DOMAIN sessions[sid] =>
                /\ sessions' = sessions
                /\ last'.verified = <<>>
                /\ IF last'.authed
                   THEN last'.result[type] = sessions[sid][type]
                   ELSE type \in last'.result.completed
      ]_vars

\* A session that had completed the password stage was sent the password stage
\* again, with a proof that would not verify, and kept its completion.
C15_Witness ==
    /\ last.op = "check_auth"
    /\ "auth" \in DOMAIN last.body
    /\ last.body.auth.type = PASSWORD
    /\ last.body.auth.proof.user = None
    /\ last.verified = <<>>
    /\ ~last.authed
    /\ last.error = NoResp
    /\ PASSWORD \in last.result.completed
    /\ sessions[last.body.auth.session][PASSWORD] \in Users

\* C16: in changePassword exactly one of the two resolution paths (password
\* stage, identity stage) applies per call; any other combination of completed
\* stages in the UIA result, a result with both a password stage and an identity
\* stage or with neither included, is a server fault (500 M_UNKNOWN) and sets no
\* password.
C16_ExactlyOnePath ==
    PasswordAuthed =>
        LET password == PASSWORD \in DOMAIN last.result
            identity == {EMAIL_IDENTITY, MSISDN} \cap DOMAIN last.result # {} IN
        (password <=> identity) =>
            /\ last.resp = Error(500, "M_UNKNOWN")
            /\ last.effect = NoEffect
            /\ \A i \in 1..Len(last.calls) : last.calls[i] # "set_password"

\* The mutation a request performed: the call and the account it acted on.
MutationCalls == {"set_password", "deactivate_account"}

\* The request's identity check passed for the account it mutated.
IdentityCheckPassed(r, store) ==
    IF PASSWORD \in DOMAIN r.result
    THEN r.requester.user # None /\ r.requester.user = r.result[PASSWORD]
                                /\ r.effect.user_id = r.result[PASSWORD]
    ELSE /\ EMAIL_IDENTITY \in DOMAIN r.result
         /\ LET t == r.result[EMAIL_IDENTITY] IN
            r.effect.user_id \in Owners(store, t.medium, Normalize(t.medium, t.address))

\* C17: a mutation request (change password, non-service deactivation) goes
\* RECEIVED -> AUTHENTICATING -> {AUTHORIZED -> MUTATING -> DONE} | {REJECTED}:
\* set_password / deactivate_account happens only after UIA reported
\* authenticated and the identity check passed, an unauthenticated round answers
\* 401 with the partial session state and mutates nothing, and a request that is
\* REJECTED or DONE takes no further step.
C17_MutationStateMachine ==
    [][ LET r == last' IN
        /\ r.calls # <<>> => r.calls[1] = "check_auth"
        /\ \A i \in 1..Len(r.calls) :
              r.calls[i] \in MutationCalls =>
                 /\ i = Len(r.calls) /\ i > 1
                 /\ r.resp = Ok(<<>>)
                 /\ r.effect # NoEffect
        /\ r.effect # NoEffect =>
              /\ r.authed
              /\ IdentityCheckPassed(r, threepids)
              /\ r.calls[Len(r.calls)] =
                    (IF r.op = "changePassword" THEN "set_password" ELSE "deactivate_account")
        /\ r.effect = NoEffect => deactivated' = deactivated
        /\ (~r.authed /\ r.calls # <<>>
              /\ r.resp.errcode \notin {"M_FORBIDDEN", "M_UNAUTHORIZED", "M_UNRECOGNIZED"}) =>
              /\ r.resp = [code |-> 401, errcode |-> "", ret |-> r.result]
              /\ r.result.flows = (IF r.op = "changePassword" THEN PasswordFlows
                                                               ELSE DeactivateFlows)
              /\ r.result.completed =
                    (IF "auth" \in DOMAIN r.body /\ r.body.auth.session \in DOMAIN sessions'
                     THEN DOMAIN sessions'[r.body.auth.session] ELSE {})
              /\ r.calls = <<"check_auth">>
              /\ r.effect = NoEffect
      ]_vars

\* A password change authenticated by an email identity stage went through its
\* lookup and set the owner's password.
C17_Witness ==
    /\ last.op = "changePassword"
    /\ last.authed
    /\ last.calls = <<"check_auth", "get_user_id_by_threepid", "set_password">>
    /\ last.resp = Ok(<<>>)
    /\ last.effect.user_id = "@alice:hs"

\* The request before this one was the same request-token request and succeeded.
RepeatsSuccess(policy, medium, body) ==
    /\ last.op = "requestToken"
    /\ last.policy = policy /\ last.medium = medium /\ last.body = body
    /\ last.resp.code = 200

\* The request before this one was the owner's successful delete of the
\* address, and nobody has added the address since.
AfterOwnersDelete(medium, body) ==
    /\ last.op = "deleteThreepid" /\ last.resp = Ok(<<>>)
    /\ last.body.medium = medium
    /\ Normalize(medium, last.body.address) = Normalize(medium, TokenAddress(medium, body))
    /\ NormalizedOwner(medium, body) = None

\* C18: the request-token guard evaluates ownership afresh on every call: the
\* same (client_secret, send_attempt) add-3pid request repeated after another
\* user's addThreepid has taken the address fails with AddressAlreadyInUse, and
\* a password-reset request repeated after the owner's deleteThreepid fails with
\* AddressNotFound, whatever the earlier call answered.
C18_GuardEvaluatedAfresh ==
    [][ \A medium \in Mediums, outcome \in VerifierOutcomes :
          \A body \in FullTokenBodies(medium) :
             /\ ( /\ RequestTokenPost("add-3pid", medium, body, outcome)
                  /\ RepeatsSuccess("add-3pid", medium, body)
                  /\ NormalizedOwner(medium, body) # None )
                => last'.resp = Error(400, "M_THREEPID_IN_USE")
             /\ ( /\ RequestTokenPost("password-reset", medium, body, outcome)
                  /\ AfterOwnersDelete(medium, body) )
                => last'.resp = Error(400, "M_THREEPID_NOT_FOUND")
      ]_vars

GuardFails(policy, medium, body) ==
    LET owned == Owners(threepids, medium, TokenAddress(medium, body)) # {} IN
    IF policy = "password-reset" THEN ~owned ELSE owned

\* C20: in all four request-token endpoints the order is parameter check,
\* store lookup, guard, token issuance; the identity verifier's token issuance
\* is never invoked in a request that lacks a required parameter or whose guard
\* failed, and no request-token call, successful, failed or timed out at the
\* verifier, changes the ThreepidStore.
C20_RequestTokenOrderAndFrame ==
    [][ \A policy \in Policies, medium \in Mediums, outcome \in VerifierOutcomes :
          \A body \in TokenBodies(medium) :
             RequestTokenPost(policy, medium, body, outcome) =>
                LET lookup == "get_user_id_by_threepid"
                    issue == IF medium = "email" THEN "requestEmailToken"
                                                 ELSE "requestMsisdnToken"
                    complete == HasParams(body, IF medium = "email" THEN EmailParams
                                                                     ELSE MsisdnParams)
                IN
                /\ threepids' = threepids
                /\ IF ~complete
                   THEN /\ last'.calls = <<>>
                        /\ last'.resp = Error(400, "M_MISSING_PARAM")
                   ELSE IF GuardFails(policy, medium, body)
                   THEN /\ last'.calls = <<lookup>>
                        /\ last'.resp = Error(400, IF policy = "password-reset"
                                                    THEN "M_THREEPID_NOT_FOUND"
                                                    ELSE "M_THREEPID_IN_USE")
                   ELSE /\ last'.calls = <<lookup, issue>>
                        /\ last'.resp \in {issue_token(IF medium = "email" THEN body.email
                                                          ELSE body.phone_number, body, o) :
                                             o \in VerifierOutcomes}
      ]_vars

\* A password-reset request for an owned msisdn passed the guard and timed out
\* at the identity verifier.
C20_Witness ==
    /\ last.op = "requestToken" /\ last.policy = "password-reset"
    /\ last.medium = "msisdn"
    /\ last.calls = <<"get_user_id_by_threepid", "requestMsisdnToken">>
    /\ last.resp = Error(500, "M_UNKNOWN")
    /\ Owners(threepids, "msisdn", TokenAddress("msisdn", last.body)) # {}

====
